---- MODULE Spec2Model ----
(***************************************************************************)
(* Timesheet tracker (src/app.py): a Streamlit script over three SQLite    *)
(* tables.  Every script run reads the sidebar (role, username), calls     *)
(* authenticate, and runs the selected dashboard action; every SQL         *)
(* statement is committed by run_query.  Under Spec one script run is one  *)
(* atomic step; under RaceSpec the list-read and the update-write of a     *)
(* Respond or Review run are separate steps of a browser session.          *)
(***************************************************************************)
EXTENDS Integers, Sequences, FiniteSets, TLC

VARIABLES users, project_codes, timesheets, last, sessions

vars == <<users, project_codes, timesheets, last, sessions>>

(***************************************************************************)
(* Bounds of the model and the inputs a caller may type.                   *)
(***************************************************************************)
MaxUsers == 2
MaxProjectCodes == 1
MaxTimesheets == 2
\* the project-code rows of the specification of the two administrative tables
MaxAdminProjectCodes == 2

Usernames == {"alice", "bob"}
Roles == {"user", "manager"}
Codes == {"ENG", "OPS"}
Descriptions == {"Engineering"}
Dates == {<<2024, 1, 5>>}
TypedHours == {-1, 24, 25}
CommentInputs == {"missing approval"}

\* number_input(min_value=0.0, max_value=24.0): the limits of the hours widgets
HoursMin == 0
HoursMax == 24

\* authenticate's None, and the id of "no row": falsy like None (ids start at 1)
NoId == 0
\* the NULL of the comments column, and a comment c stored as <<c>>
NULL == <<>>
Text(c) == <<c>>

(***************************************************************************)
(* Python values handed to sqlite3 as statement parameters.                *)
(***************************************************************************)
PyStr(s) == [type |-> "str", val |-> <<s>>]
PyTuple(t) == [type |-> "tuple", val |-> t]
PyNone == [type |-> "NoneType", val |-> <<>>]

\* sqlite3 binds int, float, str, bytes and None; any other type raises
SqliteSupported(p) == p.type \in {"str", "int", "float", "bytes", "NoneType"}

(***************************************************************************)
(* Helpers.                                                                *)
(***************************************************************************)
MaxOf(S) == CHOOSE m \in S : \A x \in S : x <= m

\* INTEGER PRIMARY KEY without AUTOINCREMENT: one more than the largest rowid
NextRowid(table) == IF DOMAIN table = {} THEN 1 ELSE MaxOf(DOMAIN table) + 1

\* the rows of a table in rowid order, as the ids of the rows that satisfy P
RECURSIVE SortedIds(_)
SortedIds(S) ==
    IF S = {} THEN <<>>
    ELSE LET m == CHOOSE x \in S : \A y \in S : x <= y
         IN  <<m>> \o SortedIds(S \ {m})

Insert(table, row) == [i \in DOMAIN table \cup {NextRowid(table)} |->
                         IF i \in DOMAIN table THEN table[i] ELSE row]
Delete(table, ids) == [i \in DOMAIN table \ ids |-> table[i]]

Pad2(n) == IF n < 10 THEN "0" \o ToString(n) ELSE ToString(n)
\* date.strftime('%Y-%m-%d')
strftime(d) == ToString(d[1]) \o "-" \o Pad2(d[2]) \o "-" \o Pad2(d[3])

\* st.number_input(min_value, max_value): a typed value outside the limits is
\* not committed and the widget keeps its value, the default min_value
number_input_as_unbounded(typed, min_value, max_value) == typed
number_input(typed, min_value, max_value) ==
    IF min_value <= typed /\ typed <= max_value THEN typed ELSE min_value

(***************************************************************************)
(* Queries.                                                                *)
(***************************************************************************)
\* SELECT id, code FROM project_codes
get_project_codes ==
    LET ids == SortedIds(DOMAIN project_codes)
    IN  [k \in 1..Len(ids) |-> <<ids[k], project_codes[ids[k]].code>>]

\* SELECT id FROM users WHERE username = ? AND role = ?; user[0][0] or None
authenticate_as_name_only(username, role) ==
    LET user == SortedIds({i \in DOMAIN users : users[i].username = username})
    IN  IF user # <<>> THEN user[1] ELSE NoId
authenticate(username, role) ==
    LET user == SortedIds({i \in DOMAIN users :
                             users[i].username = username /\ users[i].role = role})
    IN  IF user # <<>> THEN user[1] ELSE NoId

\* SELECT * FROM timesheets WHERE user_id = ?
ViewRowsOf(table, user_id) ==
    SortedIds({i \in DOMAIN table : table[i].user_id = user_id})
ViewRows(user_id) == ViewRowsOf(timesheets, user_id)

\* SELECT ... FROM timesheets WHERE user_id = ? AND status = "rejected"
RejectedRows(user_id) ==
    SortedIds({i \in DOMAIN timesheets :
                 timesheets[i].user_id = user_id /\ timesheets[i].status = "rejected"})

\* SELECT * FROM timesheets WHERE status = "pending"
PendingRows_as_unfiltered == SortedIds(DOMAIN timesheets)
PendingRows ==
    SortedIds({i \in DOMAIN timesheets : timesheets[i].status = "pending"})

Range(s) == {s[k] : k \in 1..Len(s)}

(***************************************************************************)
(* Statements.  A CHECK or UNIQUE violation raises sqlite3.IntegrityError  *)
(* and leaves the table as it was.                                         *)
(***************************************************************************)
\* CHECK(hours >= 0), CHECK(status IN ('pending', 'approved', 'rejected'))
TimesheetChecks(row) ==
    row.hours >= 0 /\ row.status \in {"pending", "approved", "rejected"}

\* INSERT INTO timesheets (user_id, project_code_id, date, hours, status)
InsertTimesheet_as_empty_comment(user_id, project_code_id, date, hours, status) ==
    Insert(timesheets, [user_id |-> user_id, project_code_id |-> project_code_id,
                        date |-> date, hours |-> hours, status |-> status,
                        comments |-> Text("")])
InsertTimesheet(user_id, project_code_id, date, hours, status) ==
    Insert(timesheets, [user_id |-> user_id, project_code_id |-> project_code_id,
                        date |-> date, hours |-> hours, status |-> status,
                        comments |-> NULL])

\* UPDATE timesheets SET project_code_id = ?, date = ?, hours = ?
\*   WHERE id = ? AND user_id = ?
UpdateModify(project_code_id, date, hours, timesheet_id, user_id) ==
    [i \in DOMAIN timesheets |->
       IF i = timesheet_id /\ timesheets[i].user_id = user_id
       THEN [timesheets[i] EXCEPT !.project_code_id = project_code_id,
                                  !.date = date, !.hours = hours]
       ELSE timesheets[i]]

\* DELETE FROM timesheets WHERE id = ? AND user_id = ?
DeleteWhere_as_id_only(timesheet_id, user_id) ==
    {i \in DOMAIN timesheets : i = timesheet_id}
DeleteWhere_as_pending_only(timesheet_id, user_id) ==
    {i \in DOMAIN timesheets : i = timesheet_id /\ timesheets[i].user_id = user_id
                                 /\ timesheets[i].status = "pending"}
DeleteWhere(timesheet_id, user_id) ==
    {i \in DOMAIN timesheets : i = timesheet_id /\ timesheets[i].user_id = user_id}

\* UPDATE timesheets SET hours = ?, status = "pending" WHERE id = ?
UpdateResubmit_as_clearing_comment(hours, timesheet_id) ==
    [i \in DOMAIN timesheets |->
       IF i = timesheet_id
       THEN [timesheets[i] EXCEPT !.hours = hours, !.status = "pending",
                                  !.comments = NULL]
       ELSE timesheets[i]]
UpdateResubmit(hours, timesheet_id) ==
    [i \in DOMAIN timesheets |->
       IF i = timesheet_id
       THEN [timesheets[i] EXCEPT !.hours = hours, !.status = "pending"]
       ELSE timesheets[i]]

\* UPDATE timesheets SET status = ?, comments = ? WHERE id = ?
UpdateReview_as_keeping_comment(status, comments, timesheet_id) ==
    [i \in DOMAIN timesheets |->
       IF i = timesheet_id
       THEN [timesheets[i] EXCEPT !.status = status]
       ELSE timesheets[i]]
UpdateReview(status, comments, timesheet_id) ==
    [i \in DOMAIN timesheets |->
       IF i = timesheet_id
       THEN [timesheets[i] EXCEPT !.status = status, !.comments = Text(comments)]
       ELSE timesheets[i]]

\* FOREIGN KEY(user_id) REFERENCES users(id) and FOREIGN KEY(project_code_id)
\* REFERENCES project_codes(id): SQLite enforces a declared foreign key only on
\* a connection that has run PRAGMA foreign_keys = ON, and run_query opens its
\* connection with sqlite3.connect('timesheets.db') and runs no PRAGMA
foreign_keys_as_on == TRUE
foreign_keys == FALSE

\* some timesheet holds id in the given column
Referenced(column, id) ==
    \E t \in DOMAIN timesheets : timesheets[t][column] = id

\* SELECT id FROM project_codes WHERE code = ? with parameter p
SelectProjectCodeId(p) ==
    IF ~SqliteSupported(p)
    THEN [err |-> "ProgrammingError", rows |-> <<>>]
    ELSE [err |-> "",
          rows |-> SortedIds({i \in DOMAIN project_codes :
                                p.type = "str" /\ <<project_codes[i].code>> = p.val})]

\* username TEXT UNIQUE NOT NULL, CHECK(role IN ('user', 'manager'))
UsersUnique_as_unchecked(username, except) == TRUE
UsersUnique(username, except) ==
    \A i \in DOMAIN users \ except : users[i].username # username

\* code TEXT UNIQUE NOT NULL
CodesUnique_as_unchecked(code, except) == TRUE
CodesUnique(code, except) ==
    \A i \in DOMAIN project_codes \ except : project_codes[i].code # code

(***************************************************************************)
(* The record of the last script run: what ran and how it ended (err = ""  *)
(* when no exception was raised); for the timesheet actions, the id the    *)
(* sidebar's username resolved to, the row the action named and what was   *)
(* typed.                                                                  *)
(***************************************************************************)
Run(op, uid) ==
    [op |-> op, err |-> "", uid |-> uid, id |-> NoId, username |-> "", role |-> "",
     code |-> "", date |-> <<>>, typed |-> 0, text |-> ""]

\* The tables of the database file, by name
TableNames == {"users", "project_codes", "timesheets"}
Database ==
    [users |-> users, project_codes |-> project_codes, timesheets |-> timesheets]

\* CREATE TABLE IF NOT EXISTS: a table that exists keeps its rows, a missing
\* one is created empty
CreateTableIfNotExists_as_recreated(exists, rows) == <<>>
CreateTableIfNotExists(exists, rows) == IF exists THEN rows ELSE <<>>

\* init_db on a file that holds the tables named in existing, with rows db
init_db(existing, db) ==
    [n \in TableNames |-> CreateTableIfNotExists(n \in existing, db[n])]

\* The browser sessions whose Review and Respond runs are followed statement
\* by statement, each with the role chosen in its sidebar; a session that is
\* not in such a run is Idle, one that is holds the rows its SELECT returned
Sessions == {"manager1", "manager2", "owner"}
SessionRole == [s \in Sessions |-> IF s = "owner" THEN "user" ELSE "manager"]
Idle == [op |-> "idle", uid |-> NoId, rows |-> <<>>]

\* init_db creates the tables empty.  The app can add a user only from the
\* manager dashboard, so a first manager row is put in from outside the app.
SeededUsers == (1 :> [username |-> "bob", role |-> "manager"])

Init ==
    /\ users \in {<<>>, SeededUsers}
    /\ project_codes = <<>>
    /\ timesheets = <<>>
    /\ last = Run("init_db", NoId)
    /\ sessions = [s \in Sessions |-> Idle]

(***************************************************************************)
(* Script start (line 54): every run of the script calls init_db before    *)
(* anything else, on the file that already holds the three tables.  InitDb *)
(* is a run that does nothing more (a page load with no button pressed).   *)
(***************************************************************************)
InitDb ==
    LET db == init_db(TableNames, Database)
    IN  /\ users' = db.users
        /\ project_codes' = db.project_codes
        /\ timesheets' = db.timesheets
        /\ last' = Run("init_db", NoId)
        /\ UNCHANGED sessions

(***************************************************************************)
(* Navigation (lines 258-274).                                             *)
(***************************************************************************)
InvalidCredentials(username, role) ==
    /\ authenticate(username, role) = NoId
    /\ last' = [Run("navigation", NoId)
                  EXCEPT !.err = "InvalidCredentials", !.username = username,
                         !.role = role]
    /\ UNCHANGED <<sessions, users, project_codes, timesheets>>

(***************************************************************************)
(* user_dashboard (lines 98-166).                                          *)
(***************************************************************************)
\* project_code_map = {code[1]: code[0] for code in project_codes}
project_code_map ==
    LET pcs == get_project_codes
    IN  [c \in {pcs[k][2] : k \in 1..Len(pcs)} |->
           pcs[MaxOf({k \in 1..Len(pcs) : pcs[k][2] = c})][1]]

CreateTimesheet(username, project_code, date, typed) ==
    LET user_id == authenticate(username, "user")
        hours == number_input(typed, HoursMin, HoursMax)
        run == [Run("create", user_id)
                  EXCEPT !.code = project_code, !.date = date, !.typed = typed]
        row == [hours |-> hours, status |-> "pending"]
    IN  /\ user_id # NoId
        /\ project_code \in DOMAIN project_code_map
        /\ NextRowid(timesheets) <= MaxTimesheets
        /\ IF TimesheetChecks(row)
           THEN /\ timesheets' = InsertTimesheet(user_id, project_code_map[project_code],
                                                 strftime(date), hours, "pending")
                /\ last' = [run EXCEPT !.id = NextRowid(timesheets)]
           ELSE /\ timesheets' = timesheets
                /\ last' = [run EXCEPT !.err = "IntegrityError"]
        /\ UNCHANGED <<sessions, users, project_codes>>

\* no project code to select: the selectbox returns None, project_code_map[None]
CreateTimesheetNoCode(username) ==
    LET user_id == authenticate(username, "user")
    IN  /\ user_id # NoId
        /\ DOMAIN project_code_map = {}
        /\ last' = [Run("create", user_id) EXCEPT !.err = "KeyError"]
        /\ UNCHANGED <<sessions, users, project_codes, timesheets>>

\* st.selectbox("Project Code", project_codes): the options are the (id, code) rows
ModifyOptions_as_codes ==
    LET pcs == get_project_codes IN [k \in 1..Len(pcs) |-> PyStr(pcs[k][2])]
ModifyOptions ==
    LET pcs == get_project_codes IN [k \in 1..Len(pcs) |-> PyTuple(pcs[k])]

OptionCode(p) ==
    IF p.type = "tuple" THEN p.val[2] ELSE IF p.type = "str" THEN p.val[1] ELSE ""

ModifySubmit(username, timesheet_id, project_code, date, typed) ==
    LET user_id == authenticate(username, "user")
        hours == number_input(typed, HoursMin, HoursMax)
        found == SelectProjectCodeId(project_code)
        run == [Run("modify", user_id)
                  EXCEPT !.id = timesheet_id, !.code = OptionCode(project_code),
                         !.date = date, !.typed = typed]
    IN  /\ user_id # NoId
        /\ IF found.err # ""
           THEN /\ timesheets' = timesheets
                /\ last' = [run EXCEPT !.err = found.err]
           ELSE IF found.rows = <<>>
           THEN /\ timesheets' = timesheets
                /\ last' = [run EXCEPT !.err = "IndexError"]
           ELSE IF hours < 0
           THEN /\ timesheets' = timesheets
                /\ last' = [run EXCEPT !.err = "IntegrityError"]
           ELSE /\ timesheets' = UpdateModify(found.rows[1], strftime(date), hours,
                                              timesheet_id, user_id)
                /\ last' = run
        /\ UNCHANGED <<sessions, users, project_codes>>

\* the selectbox returns one of its options, or None when it has none
ModifyChoices == IF ModifyOptions = <<>> THEN {PyNone} ELSE Range(ModifyOptions)

ModifyTimesheet(username, timesheet_id, date, typed) ==
    \E project_code \in ModifyChoices :
       ModifySubmit(username, timesheet_id, project_code, date, typed)

DeleteTimesheet(username, timesheet_id) ==
    LET user_id == authenticate(username, "user")
    IN  /\ user_id # NoId
        /\ timesheets' = Delete(timesheets, DeleteWhere(timesheet_id, user_id))
        /\ last' = [Run("delete", user_id) EXCEPT !.id = timesheet_id]
        /\ UNCHANGED <<sessions, users, project_codes>>

ViewTimesheets(username) ==
    LET user_id == authenticate(username, "user")
    IN  /\ user_id # NoId
        /\ last' = Run("view", user_id)
        /\ UNCHANGED <<sessions, users, project_codes, timesheets>>

\* "Respond to Comments": a Resubmit button per listed rejected timesheet
Resubmit(username, timesheet_id, typed) ==
    LET user_id == authenticate(username, "user")
        modified_hours == number_input(typed, HoursMin, HoursMax)
        run == [Run("resubmit", user_id)
                  EXCEPT !.id = timesheet_id, !.typed = typed]
    IN  /\ user_id # NoId
        /\ timesheet_id \in Range(RejectedRows(user_id))
        /\ IF modified_hours >= 0
           THEN /\ timesheets' = UpdateResubmit(modified_hours, timesheet_id)
                /\ last' = run
           ELSE /\ timesheets' = timesheets
                /\ last' = [run EXCEPT !.err = "IntegrityError"]
        /\ UNCHANGED <<sessions, users, project_codes>>

(***************************************************************************)
(* manager_dashboard (lines 175-249).                                      *)
(***************************************************************************)
\* "Review Timesheets": Approve and Reject buttons per listed pending timesheet
Review(username, timesheet_id, comments, status) ==
    LET manager_id == authenticate(username, "manager")
    IN  /\ manager_id # NoId
        /\ timesheet_id \in Range(PendingRows)
        /\ timesheets' = UpdateReview(status, comments, timesheet_id)
        /\ last' = [Run(IF status = "approved" THEN "approve" ELSE "reject", manager_id)
                      EXCEPT !.id = timesheet_id, !.text = comments]
        /\ UNCHANGED <<sessions, users, project_codes>>

Approve(username, timesheet_id, comments) ==
    Review(username, timesheet_id, comments, "approved")

Reject(username, timesheet_id, comments) ==
    Review(username, timesheet_id, comments, "rejected")

\* "Create Project Code", with the table held to at most cap rows
CreateProjectCodeUpTo(cap, username, code, description) ==
    LET manager_id == authenticate(username, "manager")
        run == Run("create_code", NoId)
    IN  /\ manager_id # NoId
        /\ CodesUnique(code, {}) => NextRowid(project_codes) <= cap
        /\ IF CodesUnique(code, {})
           THEN /\ project_codes' = Insert(project_codes,
                                           [code |-> code, description |-> description])
                /\ last' = [run EXCEPT !.id = NextRowid(project_codes)]
           ELSE /\ project_codes' = project_codes
                /\ last' = [run EXCEPT !.err = "IntegrityError"]
        /\ UNCHANGED <<sessions, users, timesheets>>

CreateProjectCode(username, code, description) ==
    CreateProjectCodeUpTo(MaxProjectCodes, username, code, description)

ModifyProjectCode(username, project_code_id, code, description) ==
    LET manager_id == authenticate(username, "manager")
        run == [Run("modify_code", NoId) EXCEPT !.id = project_code_id]
    IN  /\ manager_id # NoId
        /\ IF project_code_id \in DOMAIN project_codes
              /\ ~CodesUnique(code, {project_code_id})
           THEN /\ project_codes' = project_codes
                /\ last' = [run EXCEPT !.err = "IntegrityError"]
           ELSE /\ project_codes' =
                     [i \in DOMAIN project_codes |->
                        IF i = project_code_id
                        THEN [code |-> code, description |-> description]
                        ELSE project_codes[i]]
                /\ last' = run
        /\ UNCHANGED <<sessions, users, timesheets>>

DeleteProjectCode(username, project_code_id) ==
    LET manager_id == authenticate(username, "manager")
        run == [Run("delete_code", NoId) EXCEPT !.id = project_code_id]
    IN  /\ manager_id # NoId
        /\ IF foreign_keys /\ Referenced("project_code_id", project_code_id)
           THEN /\ project_codes' = project_codes
                /\ last' = [run EXCEPT !.err = "IntegrityError"]
           ELSE /\ project_codes' = Delete(project_codes, {project_code_id})
                /\ last' = run
        /\ UNCHANGED <<sessions, users, timesheets>>

CreateUser(by, username, role) ==
    LET manager_id == authenticate(by, "manager")
        run == Run("create_user", NoId)
    IN  /\ manager_id # NoId
        /\ UsersUnique(username, {}) => NextRowid(users) <= MaxUsers
        /\ IF UsersUnique(username, {})
           THEN /\ users' = Insert(users, [username |-> username, role |-> role])
                /\ last' = [run EXCEPT !.id = NextRowid(users)]
           ELSE /\ users' = users
                /\ last' = [run EXCEPT !.err = "IntegrityError"]
        /\ UNCHANGED <<sessions, project_codes, timesheets>>

ModifyUser(by, user_id, username, role) ==
    LET manager_id == authenticate(by, "manager")
        run == [Run("modify_user", NoId) EXCEPT !.id = user_id]
    IN  /\ manager_id # NoId
        /\ IF user_id \in DOMAIN users /\ ~UsersUnique(username, {user_id})
           THEN /\ users' = users
                /\ last' = [run EXCEPT !.err = "IntegrityError"]
           ELSE /\ users' = [i \in DOMAIN users |->
                               IF i = user_id
                               THEN [username |-> username, role |-> role]
                               ELSE users[i]]
                /\ last' = run
        /\ UNCHANGED <<sessions, project_codes, timesheets>>

DeleteUser(by, user_id) ==
    LET manager_id == authenticate(by, "manager")
        run == [Run("delete_user", NoId) EXCEPT !.id = user_id]
    IN  /\ manager_id # NoId
        /\ IF foreign_keys /\ Referenced("user_id", user_id)
           THEN /\ users' = users
                /\ last' = [run EXCEPT !.err = "IntegrityError"]
           ELSE /\ users' = Delete(users, {user_id})
                /\ last' = run
        /\ UNCHANGED <<sessions, project_codes, timesheets>>

(***************************************************************************)
(* One script run per step.                                                *)
(***************************************************************************)
TimesheetIds == 1..MaxTimesheets
UserIds == 1..MaxUsers
ProjectCodeIds == 1..MaxProjectCodes

Next ==
    \/ InitDb
    \/ \E n \in Usernames, r \in Roles : InvalidCredentials(n, r)
    \/ \E n \in Usernames, c \in Codes, d \in Dates, h \in TypedHours :
          CreateTimesheet(n, c, d, h)
    \/ \E n \in Usernames : CreateTimesheetNoCode(n)
    \/ \E n \in Usernames, t \in TimesheetIds, d \in Dates, h \in TypedHours :
          ModifyTimesheet(n, t, d, h)
    \/ \E n \in Usernames, t \in TimesheetIds : DeleteTimesheet(n, t)
    \/ \E n \in Usernames : ViewTimesheets(n)
    \/ \E n \in Usernames, t \in TimesheetIds, h \in TypedHours : Resubmit(n, t, h)
    \/ \E n \in Usernames, t \in TimesheetIds, c \in CommentInputs : Approve(n, t, c)
    \/ \E n \in Usernames, t \in TimesheetIds, c \in CommentInputs : Reject(n, t, c)
    \/ \E n \in Usernames, c \in Codes, d \in Descriptions : CreateProjectCode(n, c, d)
    \/ \E n \in Usernames, i \in ProjectCodeIds, c \in Codes, d \in Descriptions :
          ModifyProjectCode(n, i, c, d)
    \/ \E n \in Usernames, i \in ProjectCodeIds : DeleteProjectCode(n, i)
    \/ \E n \in Usernames, u \in Usernames, r \in Roles : CreateUser(n, u, r)
    \/ \E n \in Usernames, i \in UserIds, u \in Usernames, r \in Roles :
          ModifyUser(n, i, u, r)
    \/ \E n \in Usernames, i \in UserIds : DeleteUser(n, i)

Spec == Init /\ [][Next]_vars

(***************************************************************************)
(* The manager's maintenance of users and project codes alone, with room   *)
(* for two project codes.                                                  *)
(***************************************************************************)
AdminProjectCodeIds == 1..MaxAdminProjectCodes

AdminNext ==
    \/ \E n \in Usernames, r \in Roles : InvalidCredentials(n, r)
    \/ \E n \in Usernames, c \in Codes, d \in Descriptions :
          CreateProjectCodeUpTo(MaxAdminProjectCodes, n, c, d)
    \/ \E n \in Usernames, i \in AdminProjectCodeIds, c \in Codes, d \in Descriptions :
          ModifyProjectCode(n, i, c, d)
    \/ \E n \in Usernames, i \in AdminProjectCodeIds : DeleteProjectCode(n, i)
    \/ \E n \in Usernames, u \in Usernames, r \in Roles : CreateUser(n, u, r)
    \/ \E n \in Usernames, i \in UserIds, u \in Usernames, r \in Roles :
          ModifyUser(n, i, u, r)
    \/ \E n \in Usernames, i \in UserIds : DeleteUser(n, i)

AdminSpec == Init /\ [][AdminNext]_vars

(***************************************************************************)
(* Concurrent sessions.  Streamlit runs each session's script in its own   *)
(* thread, and every statement opens, commits and leaves its own           *)
(* connection: the statements of another session's run can fall between    *)
(* the SELECT that lists the rows of a Respond or Review run (lines 157,   *)
(* 180) and the UPDATE of the row whose button was pressed (lines 165,     *)
(* 189, 192).  The listed rows are what the run holds in its loop.         *)
(***************************************************************************)
ManagerAndUser ==
    (1 :> [username |-> "bob", role |-> "manager"])
      @@ (2 :> [username |-> "alice", role |-> "user"])
TwoUsers ==
    (1 :> [username |-> "bob", role |-> "user"])
      @@ (2 :> [username |-> "alice", role |-> "user"])

\* a database the app has reached: two users, a project code, and a timesheet
\* of alice's that a manager has rejected
RaceInit ==
    /\ users \in {ManagerAndUser, TwoUsers}
    /\ project_codes = (1 :> [code |-> "ENG", description |-> "Engineering"])
    /\ timesheets = (1 :> [user_id |-> 2, project_code_id |-> 1,
                           date |-> "2024-01-05", hours |-> 24,
                           status |-> "rejected",
                           comments |-> Text("missing approval")])
    /\ last = Run("init_db", NoId)
    /\ sessions = [s \in Sessions |-> Idle]

\* "Respond to Comments", up to the SELECT of the user's rejected timesheets
RespondRead(s, username) ==
    LET user_id == authenticate(username, "user")
    IN  /\ SessionRole[s] = "user"
        /\ sessions[s] = Idle
        /\ user_id # NoId
        /\ sessions' = [sessions EXCEPT ![s] = [op |-> "respond", uid |-> user_id,
                                                rows |-> RejectedRows(user_id)]]
        /\ last' = Run("respond_read", user_id)
        /\ UNCHANGED <<users, project_codes, timesheets>>

\* the UPDATE of the listed timesheet whose Resubmit button was pressed
RespondWrite(s, timesheet_id, typed) ==
    LET user_id == sessions[s].uid
        modified_hours == number_input(typed, HoursMin, HoursMax)
    IN  /\ sessions[s].op = "respond"
        /\ timesheet_id \in Range(sessions[s].rows)
        /\ modified_hours >= 0
        /\ timesheets' = UpdateResubmit(modified_hours, timesheet_id)
        /\ last' = [Run("resubmit", user_id)
                      EXCEPT !.id = timesheet_id, !.typed = typed]
        /\ sessions' = [sessions EXCEPT ![s] = Idle]
        /\ UNCHANGED <<users, project_codes>>

\* "Review Timesheets", up to the SELECT of the pending timesheets
ReviewRead(s, username) ==
    LET manager_id == authenticate(username, "manager")
    IN  /\ SessionRole[s] = "manager"
        /\ sessions[s] = Idle
        /\ manager_id # NoId
        /\ sessions' = [sessions EXCEPT ![s] = [op |-> "review", uid |-> manager_id,
                                                rows |-> PendingRows]]
        /\ last' = Run("review_read", manager_id)
        /\ UNCHANGED <<users, project_codes, timesheets>>

\* the UPDATE of the listed timesheet whose Approve or Reject button was pressed
ReviewWrite(s, timesheet_id, comments, status) ==
    /\ sessions[s].op = "review"
    /\ timesheet_id \in Range(sessions[s].rows)
    /\ timesheets' = UpdateReview(status, comments, timesheet_id)
    /\ last' = [Run(IF status = "approved" THEN "approve" ELSE "reject",
                    sessions[s].uid)
                  EXCEPT !.id = timesheet_id, !.text = comments]
    /\ sessions' = [sessions EXCEPT ![s] = Idle]
    /\ UNCHANGED <<users, project_codes>>

ApproveWrite(s, timesheet_id, comments) ==
    ReviewWrite(s, timesheet_id, comments, "approved")

RejectWrite(s, timesheet_id, comments) ==
    ReviewWrite(s, timesheet_id, comments, "rejected")

\* the run ends with no button pressed
EndRun(s) ==
    /\ sessions[s] # Idle
    /\ sessions' = [sessions EXCEPT ![s] = Idle]
    /\ last' = Run("end_run", sessions[s].uid)
    /\ UNCHANGED <<users, project_codes, timesheets>>

\* the runs of other sessions that create and delete timesheets are one
\* statement after authenticate, and stay one step
RaceNext ==
    \/ \E s \in Sessions, n \in Usernames : RespondRead(s, n)
    \/ \E s \in Sessions, t \in TimesheetIds, h \in TypedHours :
          RespondWrite(s, t, h)
    \/ \E s \in Sessions, n \in Usernames : ReviewRead(s, n)
    \/ \E s \in Sessions, t \in TimesheetIds, c \in CommentInputs :
          ApproveWrite(s, t, c)
    \/ \E s \in Sessions, t \in TimesheetIds, c \in CommentInputs :
          RejectWrite(s, t, c)
    \/ \E s \in Sessions : EndRun(s)
    \/ \E n \in Usernames, c \in Codes, d \in Dates, h \in TypedHours :
          CreateTimesheet(n, c, d, h)
    \/ \E n \in Usernames, t \in TimesheetIds : DeleteTimesheet(n, t)

RaceSpec == RaceInit /\ [][RaceNext]_vars

(***************************************************************************)
(* Properties.                                                             *)
(***************************************************************************)
Kept == DOMAIN timesheets \cap DOMAIN timesheets'
InRange(h) == HoursMin <= h /\ h <= HoursMax
OthersUnchanged(id) ==
    /\ DOMAIN timesheets' \ {id} = DOMAIN timesheets \ {id}
    /\ \A i \in DOMAIN timesheets \ {id} : timesheets'[i] = timesheets[i]

\* C1: in every step, each entry's status stays the same or changes by one of
\* pending->approved, pending->rejected, rejected->pending; no step changes a
\* status away from approved.
C1_StatusTransitions ==
    [][\A i \in Kept :
         \/ timesheets'[i].status = timesheets[i].status
         \/ <<timesheets[i].status, timesheets'[i].status>> \in
              {<<"pending", "approved">>, <<"pending", "rejected">>,
               <<"rejected", "pending">>}]_vars

\* a rejected entry has been resubmitted while another entry is approved
C1_Witness ==
    /\ last.op = "resubmit" /\ last.err = ""
    /\ timesheets[last.id].status = "pending"
    /\ \E i \in DOMAIN timesheets : timesheets[i].status = "approved"

\* C2: every stored timesheet entry has 0 <= hours <= 24.
C2_HoursInRange ==
    \A i \in DOMAIN timesheets : 0 <= timesheets[i].hours /\ timesheets[i].hours <= 24

\* an entry was created or resubmitted with 25 typed into the hours widget
C2_Witness ==
    /\ last.op \in {"create", "resubmit"} /\ last.err = "" /\ last.typed = 25
    /\ last.id \in DOMAIN timesheets
    /\ \E i \in DOMAIN timesheets : timesheets[i].hours = 24

\* C3: a resubmit of a rejected entry keeps its owner, date, project code and
\* comment, sets its hours to the submitted hours and its status to pending, and
\* leaves every other entry unchanged.
C3_ResubmitPost ==
    [][last'.op = "resubmit" /\ last'.err = "" =>
         /\ last'.id \in Kept
         /\ timesheets[last'.id].status = "rejected"
         /\ timesheets'[last'.id] =
              [timesheets[last'.id] EXCEPT !.status = "pending",
                                           !.hours = timesheets'[last'.id].hours]
         /\ InRange(last'.typed) => timesheets'[last'.id].hours = last'.typed
         /\ InRange(timesheets'[last'.id].hours)
         /\ OthersUnchanged(last'.id)]_vars

\* a commented, rejected entry was resubmitted with other hours beside another entry
C3_Witness ==
    /\ last.op = "resubmit" /\ last.err = "" /\ last.typed = 24
    /\ timesheets[last.id].status = "pending"
    /\ timesheets[last.id].hours = 24
    /\ timesheets[last.id].comments = Text("missing approval")
    /\ Cardinality(DOMAIN timesheets) = 2

\* C4: a delete or modify of an existing entry by a user who is not its owner
\* changes no row.
C4_OwnerScoping ==
    [][/\ last'.op \in {"delete", "modify"}
       /\ last'.id \in DOMAIN timesheets
       /\ timesheets[last'.id].user_id # last'.uid
       => timesheets' = timesheets]_vars

\* a user has asked to delete another user's entry, and the entry is still there
C4_Witness ==
    /\ last.op = "delete"
    /\ last.id \in DOMAIN timesheets
    /\ last.uid \in DOMAIN users
    /\ timesheets[last.id].user_id # last.uid
    /\ timesheets[last.id].user_id \in DOMAIN users

\* C5: approving (rejecting) a pending entry with comment c sets its status to
\* approved (rejected) and its comment to c and leaves its owner, date, project
\* code and hours, and all other entries, unchanged.
C5_ReviewPost ==
    [][last'.op \in {"approve", "reject"} =>
         /\ last'.id \in Kept
         /\ timesheets[last'.id].status = "pending"
         /\ timesheets'[last'.id] =
              [timesheets[last'.id] EXCEPT
                 !.status = IF last'.op = "approve" THEN "approved" ELSE "rejected",
                 !.comments = Text(last'.text)]
         /\ OthersUnchanged(last'.id)]_vars

\* an entry was rejected with a comment beside another entry
C5_Witness ==
    /\ last.op = "reject"
    /\ timesheets[last.id].status = "rejected"
    /\ timesheets[last.id].comments = Text("missing approval")
    /\ Cardinality(DOMAIN timesheets) = 2

\* C6: a create by user u adds exactly one entry, owned by u, with the given
\* project code, date and hours, status pending and no comment; the view of u's
\* entries then lists it; no existing entry is changed.
C6_CreatePost ==
    [][last'.op = "create" /\ last'.err = "" =>
         /\ last'.id \notin DOMAIN timesheets
         /\ DOMAIN timesheets' = DOMAIN timesheets \cup {last'.id}
         /\ OthersUnchanged(last'.id)
         /\ timesheets'[last'.id].user_id = last'.uid
         /\ timesheets'[last'.id].project_code_id \in DOMAIN project_codes
         /\ project_codes[timesheets'[last'.id].project_code_id].code = last'.code
         /\ last'.date = <<2024, 1, 5>> => timesheets'[last'.id].date = "2024-01-05"
         /\ InRange(last'.typed) => timesheets'[last'.id].hours = last'.typed
         /\ timesheets'[last'.id].status = "pending"
         /\ timesheets'[last'.id].comments = NULL
         /\ last'.id \in Range(ViewRowsOf(timesheets', last'.uid))]_vars

\* a second entry was created with 24 hours
C6_Witness ==
    /\ last.op = "create" /\ last.err = "" /\ last.typed = 24
    /\ last.id = 2
    /\ Cardinality(DOMAIN timesheets) = 2
    /\ timesheets[last.id].hours = 24

\* C7: no step changes the hours, date or project code of an approved entry.
C7_ApprovedNotModified ==
    [][\A i \in Kept :
         timesheets[i].status = "approved" =>
           /\ timesheets'[i].hours = timesheets[i].hours
           /\ timesheets'[i].date = timesheets[i].date
           /\ timesheets'[i].project_code_id = timesheets[i].project_code_id]_vars

\* the owner has submitted Modify for an approved entry
C7_Witness ==
    /\ last.op = "modify"
    /\ last.id \in DOMAIN timesheets
    /\ timesheets[last.id].user_id = last.uid
    /\ timesheets[last.id].status = "approved"
    /\ last.typed = 24 /\ timesheets[last.id].hours # 24

\* C8: a Modify by the owner of an existing entry, with an existing project code
\* selected, completes without error and sets the entry's project code, date and
\* hours to the submitted values, leaving status, comment and owner unchanged.
C8_ModifySucceeds ==
    [][/\ last'.op = "modify"
       /\ last'.id \in DOMAIN timesheets
       /\ timesheets[last'.id].user_id = last'.uid
       /\ \E p \in DOMAIN project_codes : project_codes[p].code = last'.code
       /\ InRange(last'.typed)
       => /\ last'.err = ""
          /\ last'.id \in DOMAIN timesheets'
          /\ timesheets'[last'.id].hours = last'.typed
          /\ project_codes[timesheets'[last'.id].project_code_id].code = last'.code
          /\ timesheets'[last'.id].status = timesheets[last'.id].status
          /\ timesheets'[last'.id].comments = timesheets[last'.id].comments
          /\ timesheets'[last'.id].user_id = timesheets[last'.id].user_id]_vars

\* C9: an approve or reject runs only for an actor whose user row has role
\* manager when it runs; for a username whose row has role user the manager
\* dashboard is refused and no approve or reject is possible.
C9_Refused ==
    \A n \in Usernames :
      (\E i \in DOMAIN users : users[i].username = n /\ users[i].role = "user") =>
        /\ ENABLED InvalidCredentials(n, "manager")
        /\ \A t \in TimesheetIds, c \in CommentInputs :
             /\ ~ENABLED Approve(n, t, c)
             /\ ~ENABLED Reject(n, t, c)

C9_ActorIsManager ==
    []C9_Refused
    /\ [][/\ last'.op \in {"approve", "reject"} =>
               /\ last'.uid \in DOMAIN users
               /\ users[last'.uid].role = "manager"
          /\ last'.op = "navigation" =>
               /\ last'.err = "InvalidCredentials"
               /\ timesheets' = timesheets]_vars

\* the owner of a pending entry, whose role is user, was refused the manager dashboard
C9_Witness ==
    /\ last.op = "navigation" /\ last.role = "manager"
    /\ \E i \in DOMAIN users, t \in DOMAIN timesheets :
         /\ users[i].username = last.username /\ users[i].role = "user"
         /\ timesheets[t].user_id = i /\ timesheets[t].status = "pending"

\* C10: authenticate(name, role) is i exactly when a row (i, name, role) exists,
\* and None exactly when no row has both the name and the role.
C10_IdentityLookup ==
    /\ \A n \in Usernames, r \in Roles :
         /\ \A i \in UserIds :
              authenticate(n, r) = i <=>
                (i \in DOMAIN users /\ users[i] = [username |-> n, role |-> r])
         /\ authenticate(n, r) = NoId <=>
              ~\E i \in DOMAIN users : users[i] = [username |-> n, role |-> r]
    /\ last.op = "navigation" =>
         ~\E i \in DOMAIN users :
            users[i] = [username |-> last.username, role |-> last.role]

\* a name was not found under one role while a row has the name with the other role
C10_Witness ==
    /\ last.op = "navigation"
    /\ \E i \in DOMAIN users :
         users[i].username = last.username /\ users[i].role # last.role
    /\ Cardinality(DOMAIN users) = 2

\* C11: a create with hours typed below 0 or above 24 (for example 25) ends
\* with an error and inserts no row.
C11_OutOfRangeRejected ==
    [][last'.op = "create" /\ ~InRange(last'.typed) =>
         /\ last'.err # ""
         /\ timesheets' = timesheets]_vars

\* C12: in every state no two users share a username and no two project codes
\* share a code; a createUser or createProjectCode either adds one row whose
\* username or code no existing row has, or, when the name or code collides,
\* fails and leaves both the users and the project_codes tables unchanged.
C12_Unique ==
    /\ \A i, j \in DOMAIN users :
         users[i].username = users[j].username => i = j
    /\ \A i, j \in DOMAIN project_codes :
         project_codes[i].code = project_codes[j].code => i = j

C12_UniquenessKeys ==
    []C12_Unique
    /\ [][/\ last'.op = "create_user" =>
               \/ /\ last'.err = ""
                  /\ last'.id \notin DOMAIN users
                  /\ DOMAIN users' = DOMAIN users \cup {last'.id}
                  /\ \A i \in DOMAIN users :
                       /\ users'[i] = users[i]
                       /\ users[i].username # users'[last'.id].username
                  /\ project_codes' = project_codes
               \/ /\ last'.err = "IntegrityError"
                  /\ users' = users /\ project_codes' = project_codes
          /\ last'.op = "create_code" =>
               \/ /\ last'.err = ""
                  /\ last'.id \notin DOMAIN project_codes
                  /\ DOMAIN project_codes' = DOMAIN project_codes \cup {last'.id}
                  /\ \A i \in DOMAIN project_codes :
                       /\ project_codes'[i] = project_codes[i]
                       /\ project_codes[i].code # project_codes'[last'.id].code
                  /\ users' = users
               \/ /\ last'.err = "IntegrityError"
                  /\ users' = users /\ project_codes' = project_codes]_vars

\* with two users and two project codes stored, a create of a project code
\* whose code is taken has failed
C12_Witness ==
    /\ last.op = "create_code" /\ last.err = "IntegrityError"
    /\ Cardinality(DOMAIN project_codes) = 2
    /\ Cardinality(DOMAIN users) = 2

\* C13: in every state, every timesheet's user_id is the id of an existing user
\* and its project_code_id is the id of an existing project code.
C13_ReferentialIntegrity ==
    \A t \in DOMAIN timesheets :
       /\ timesheets[t].user_id \in DOMAIN users
       /\ timesheets[t].project_code_id \in DOMAIN project_codes

\* C14: a deleteProjectCode or deleteUser ends without error, also when a
\* timesheet refers to the row; it removes exactly the row with the given id
\* from its table and leaves the other table and every timesheet unchanged.
C14_PermissiveDelete ==
    [][/\ last'.op = "delete_user" =>
            /\ last'.err = ""
            /\ DOMAIN users' = DOMAIN users \ {last'.id}
            /\ \A i \in DOMAIN users' : users'[i] = users[i]
            /\ project_codes' = project_codes
            /\ timesheets' = timesheets
       /\ last'.op = "delete_code" =>
            /\ last'.err = ""
            /\ DOMAIN project_codes' = DOMAIN project_codes \ {last'.id}
            /\ \A i \in DOMAIN project_codes' : project_codes'[i] = project_codes[i]
            /\ users' = users
            /\ timesheets' = timesheets]_vars

\* a user who owns a timesheet has been deleted, and the timesheet is still there
C14_Witness ==
    /\ last.op = "delete_user" /\ last.err = ""
    /\ last.id \notin DOMAIN users
    /\ \E t \in DOMAIN timesheets :
         /\ timesheets[t].user_id = last.id
         /\ timesheets[t].project_code_id \in DOMAIN project_codes

\* C15: init_db run on a database whose tables exist leaves every user,
\* project-code and timesheet row unchanged, and running init_db a second time
\* changes nothing that the first run left, whichever tables existed before.
C15_Idempotent ==
    /\ init_db(TableNames, Database) = Database
    /\ \A existing \in SUBSET TableNames :
         init_db(TableNames, init_db(existing, Database)) = init_db(existing, Database)

C15_InitSchemaIdempotent ==
    []C15_Idempotent
    /\ [][last'.op = "init_db" =>
            /\ users' = users
            /\ project_codes' = project_codes
            /\ timesheets' = timesheets]_vars

\* the script has started on a database that holds users, a project code and
\* a reviewed timesheet
C15_Witness ==
    /\ last.op = "init_db"
    /\ Cardinality(DOMAIN users) = 2
    /\ project_codes # <<>>
    /\ \E t \in DOMAIN timesheets : timesheets[t].status = "approved"

\* C16: whenever the UPDATE of a resubmit from user u's session meets a row,
\* that row is owned by u and has status rejected at that moment, whatever
\* other sessions have deleted, created or reviewed since the session's SELECT.
C16_ResubmitOwnRejected ==
    [][last'.op = "resubmit" /\ last'.id \in DOMAIN timesheets =>
         /\ timesheets[last'.id].user_id = last'.uid
         /\ timesheets[last'.id].status = "rejected"]_vars

\* C17: with two manager sessions and the owner's session running concurrently,
\* the SELECT and the UPDATE of a run being separate steps, no step changes the
\* status of an approved entry.
C17_ApprovedStaysApproved ==
    [][\A i \in Kept :
         timesheets[i].status = "approved" =>
           timesheets'[i].status = "approved"]_vars

\* C18: the owner of an entry can delete it whatever its status, and a delete
\* of an entry by its owner removes exactly that entry and leaves every other
\* entry, every user and every project code unchanged.
C18_Deletable ==
    \A n \in Usernames, t \in DOMAIN timesheets :
       authenticate(n, "user") = timesheets[t].user_id =>
         ENABLED DeleteTimesheet(n, t)

C18_OwnerDelete ==
    []C18_Deletable
    /\ [][/\ last'.op = "delete"
          /\ last'.id \in DOMAIN timesheets
          /\ timesheets[last'.id].user_id = last'.uid
          => /\ last'.err = ""
             /\ DOMAIN timesheets' = DOMAIN timesheets \ {last'.id}
             /\ \A i \in DOMAIN timesheets' : timesheets'[i] = timesheets[i]
             /\ users' = users
             /\ project_codes' = project_codes]_vars

\* a user has deleted the second entry and still owns an approved one
C18_Witness ==
    /\ last.op = "delete" /\ last.id = 2
    /\ DOMAIN timesheets = {1}
    /\ timesheets[1].user_id = last.uid
    /\ timesheets[1].status = "approved"

\* C19: right after a createUser has stored a user under id i, no timesheet
\* has user_id i.
C19_NewUserNoEntries ==
    [][last'.op = "create_user" /\ last'.err = "" =>
         \A t \in DOMAIN timesheets' : timesheets'[t].user_id # last'.id]_vars

====
